---- MODULE Spec2Model ----
(***************************************************************************)
(* A model of libsea.py: the LibSea serialisation engine (the scalar and   *)
(* composite codecs, the type dispatcher ser, the indentation wrapper)     *)
(* and the graph assembler Graph.from_graph.                               *)
(*                                                                         *)
(* A text (a Python str) is a sequence of tokens.  A token is either one   *)
(* character the code looks at (newline, the characters String.serialize   *)
(* escapes, the terminator, a space) or a run of ordinary characters the   *)
(* code never looks into ("numNodes", "a").  Concatenation is \o.          *)
(***************************************************************************)
EXTENDS Integers, Sequences, FiniteSets, TLC

VARIABLES
    pc,          \* position of the running call
    graph,       \* the external graph handed to Graph.from_graph
    node_order,  \* from_graph's local node_order (ordered dict handle -> id)
    attributes,  \* from_graph's local attributes (ordered buckets)
    links,       \* from_graph's local links
    LibSea,      \* the Graph document under construction
    err,         \* the exception that left from_graph, or NoError
    obj,         \* render call: the value being rendered
    labels,      \* render call: the labels keyword
    indent,      \* render call: the indent keyword
    out          \* render call: the returned text

vars == <<pc, graph, node_order, attributes, links, LibSea, err,
          obj, labels, indent, out>>

----------------------------------------------------------------------------
(* Bounds of the model.                                                    *)

\* longest native text drawn as a render input
MaxStrLen == 2
\* most members of a composite render input
MaxItems == 2
\* most node handles the external node iterator yields
MaxNodes == 2
\* most edges the external edge iterator yields
MaxEdges == 1
\* widest margin a render call asks for
MaxIndent == 2

----------------------------------------------------------------------------
(* Characters and texts.                                                   *)

BSLASH == "\\"
DQUOTE == "\""
LF == "\n"
CR == "\r"
TAB == "\t"
FF == "\f"
BKSP == "<backspace>"
PIPE == "|"
SPACE == " "

\* Element.TERM
TERM == ";"

\* the character class of the regular expression in String.serialize
EscapedChars == {BSLASH, DQUOTE, LF, CR, TAB, FF, BKSP, PIPE}

\* amount * " "
Spaces(amount) == [i \in 1..amount |-> SPACE]

\* sep.join(parts)
RECURSIVE Join(_, _)
Join(sep, parts) ==
    IF parts = <<>> THEN <<>>
    ELSE IF Len(parts) = 1 THEN parts[1]
    ELSE parts[1] \o sep \o Join(sep, Tail(parts))

\* string.split('\n'): always at least one line
RECURSIVE Split(_)
Split(string) ==
    LET breaks == {i \in DOMAIN string : string[i] = LF}
    IN  IF breaks = {} THEN <<string>>
        ELSE LET b == CHOOSE i \in breaks : \A j \in breaks : i <= j
             IN  <<SubSeq(string, 1, b - 1)>>
                     \o Split(SubSeq(string, b + 1, Len(string)))

\* _indent(string, amount)
_indent(string, amount) ==
    IF amount = 0 THEN string
    ELSE LET lines == Split(string)
         IN  Join(<<LF>>, [i \in DOMAIN lines |->
                              IF lines[i] # <<>> THEN Spaces(amount) \o lines[i]
                              ELSE lines[i]])

\* str(n) for an int
Digits == <<"0", "1", "2", "3", "4", "5", "6", "7", "8", "9">>

RECURSIVE NatText(_)
NatText(n) ==
    IF n < 10 THEN <<Digits[n + 1]>>
    ELSE NatText(n \div 10) \o <<Digits[(n % 10) + 1]>>

IntText(n) == IF n < 0 THEN <<"-">> \o NatText(0 - n) ELSE NatText(n)

\* str.replace(old, new) for a one-character old
RECURSIVE Replace(_, _, _)
Replace(string, old, new) ==
    IF string = <<>> THEN <<>>
    ELSE (IF Head(string) = old THEN new ELSE <<Head(string)>>)
             \o Replace(Tail(string), old, new)

\* re.sub(r'([\\"\n\r\t\f\b|])', r'\\\1', string)
RECURSIVE ReSubEscape(_)
ReSubEscape(string) ==
    IF string = <<>> THEN <<>>
    ELSE (IF Head(string) \in EscapedChars THEN <<BSLASH, Head(string)>>
          ELSE <<Head(string)>>)
             \o ReSubEscape(Tail(string))

----------------------------------------------------------------------------
(* Values.  Every value is a record [t, v, names]: t is its Python type,   *)
(* v its payload, names the field names of a tuple (<<>> elsewhere).       *)

Node(t, v, names) == [t |-> t, v |-> v, names |-> names]

\* native values
Str(text) == Node("str", text, <<>>)
PyInt(n) == Node("int", n, <<>>)
\* a float with one decimal digit: <<whole, tenth>>
Float(whole, tenth) == Node("float", <<whole, tenth>>, <<>>)
PyList(items) == Node("list", items, <<>>)
\* an insertion-ordered mapping: a sequence of <<key, value>>
PyDict(entries) == Node("dict", entries, <<>>)
\* a tuple; names is its _fields (<<>> for a plain tuple)
PyTuple(names, values) == Node("tuple", values, names)
None == Node("NoneType", <<>>, <<>>)
\* a bool: neither str, float, int, list, Mapping nor tuple for ser
PyBool(b) == Node("bool", b, <<>>)

\* a plausible slip: the two ends of a link change places
LinkReversed(source, destination) ==
    Node("tuple", <<destination, source>>, <<<<"source">>, <<"destination">>>>)

\* Link = namedtuple('Link', ('source','destination'))
Link(source, destination) ==
    PyTuple(<<<<"source">>, <<"destination">>>>, <<source, destination>>)

\* attrValue = namedtuple('attrValue', ('id', 'value'))
attrValue(id, value) == PyTuple(<<<<"id">>, <<"value">>>>, <<id, value>>)

\* Element classes: the constructors
ElementNew == Node("Element", <<>>, <<>>)
Value(value) == Node("Value", value, <<>>)
\* String.__init__: value.replace('\r', r'\r').replace('\n', r'\n')
String(value) ==
    Node("String",
         Replace(Replace(value, CR, <<BSLASH, "r">>), LF, <<BSLASH, "n">>),
         <<>>)
Bool(value) == Node("Bool", value, <<>>)
Identifier(value) == Node("Identifier", value, <<>>)
Double(value) == Node("Double", value, <<>>)
Integer(value) == Node("Integer", value, <<>>)
Tuple(names, values) == Node("Tuple", values, names)
List(items) == Node("List", items, <<>>)
Object(dict) == Node("Object", dict, <<>>)

ElementClasses ==
    {"Element", "Value", "String", "Bool", "Identifier", "Double", "Integer",
     "Tuple", "List", "Object", "Graph"}

\* Element._label
_label(name, lbls) == IF lbls THEN <<"@">> \o name \o <<"=">> ELSE <<>>

\* truth value of a Python object (Bool.serialize's `if self.value`)
Truthy(x) ==
    CASE x.t = "bool" -> x.v
      [] x.t = "int" -> x.v # 0
      [] x.t = "float" -> x.v # <<0, 0>>
      [] x.t = "NoneType" -> FALSE
      [] x.t \in {"str", "list", "dict", "tuple"} -> x.v # <<>>
      [] OTHER -> TRUE

Min(a, b) == IF a <= b THEN a ELSE b

RECURSIVE ser(_, _, _)
RECURSIVE Serialize(_, _, _)
RECURSIVE PyStr(_)
RECURSIVE ObjectLines(_, _)
RECURSIVE GraphSerialize(_, _, _)

\* str(x)
PyStr(x) ==
    CASE x.t = "str" -> x.v
      [] x.t = "int" -> IntText(x.v)
      [] x.t = "float" -> IntText(x.v[1]) \o <<".">> \o IntText(x.v[2])
      [] x.t = "NoneType" -> <<"None">>
      [] x.t = "bool" -> IF x.v THEN <<"True">> ELSE <<"False">>
      [] OTHER -> Serialize(x, TRUE, 0)      \* Element.__str__

\* Tuple.serialize, before the indentable wrapper
TupleSerialize(self, lbls) ==
    IF self.names # <<>>
    THEN <<"{">>
         \o Join(<<SPACE>>,
                 [i \in 1..Min(Len(self.names), Len(self.v)) |->
                     _label(self.names[i], lbls) \o ser(self.v[i], lbls, 0)
                         \o <<TERM>>])
         \o <<"}">>
    ELSE <<"{">>
         \o Join(<<SPACE>>,
                 [i \in DOMAIN self.v |-> ser(self.v[i], lbls, 0) \o <<TERM>>])
         \o <<"}">>

\* List.serialize, before the indentable wrapper
ListSerialize(self, lbls) ==
    <<"[", LF>>
        \o Join(<<",", LF>>, [i \in DOMAIN self.v |-> ser(self.v[i], lbls, 4)])
        \o <<LF, "]">>

\* the loop of Object.serialize
ObjectLines(entries, lbls) ==
    IF entries = <<>> THEN <<>>
    ELSE _indent(_label(entries[1][1], lbls) \o ser(entries[1][2], lbls, 0)
                     \o <<TERM, LF>>, 4)
             \o ObjectLines(Tail(entries), lbls)

\* Object.serialize, before the indentable wrapper
ObjectSerialize(self, lbls) ==
    <<"{", LF>> \o ObjectLines(self.v, lbls) \o <<"}">>

\* X.serialize(labels=lbls, indent=ind) with the indentable wrapper applied
Serialize(self, lbls, ind) ==
    _indent(CASE self.t = "Element" -> <<>>
              [] self.t \in {"Value", "Double", "Integer"} -> PyStr(self.v)
              [] self.t = "String" -> <<DQUOTE>> \o ReSubEscape(self.v) \o <<DQUOTE>>
              [] self.t = "Bool" -> IF Truthy(self.v) THEN <<"T">> ELSE <<"F">>
              [] self.t = "Identifier" -> <<"$">> \o PyStr(self.v)
              [] self.t = "Tuple" -> TupleSerialize(self, lbls)
              [] self.t = "List" -> ListSerialize(self, lbls)
              [] self.t = "Object" -> ObjectSerialize(self, lbls)
              [] self.t = "Graph" -> GraphSerialize(self.v, lbls, TRUE),
            ind)

\* the type dispatch of ser: the object whose serialize is then tried
Dispatch(o) ==
    CASE o.t = "str" -> String(o.v)
      [] o.t = "float" -> Double(o)
      [] o.t = "int" -> Integer(o)
      [] o.t = "list" -> List(o.v)
      [] o.t = "dict" -> Object(o.v)
      [] o.t = "tuple" -> Tuple(o.names, o.v)
      [] o.t = "NoneType" -> Str(<<>>)
      [] OTHER -> o

\* ser(obj, labels=lbls, indent=ind)
ser(o, lbls, ind) ==
    LET w == Dispatch(o)
    IN  IF w.t \in ElementClasses THEN Serialize(w, lbls, ind)
        ELSE PyStr(w)          \* except AttributeError: string = str(obj)

\* Graph.print_var(name, value, indent=ind, labels=lbls)
print_var(name, value, lbls, ind) ==
    _indent(_label(name, lbls) \o ser(value, lbls, 0) \o <<TERM, LF>>, ind)

\* _indent("# ...\n", 4) under `if comments:`
CommentLine(text, comments) ==
    IF comments THEN _indent(<<"# ", text, LF>>, 4) ELSE <<>>

BlankLine(comments) == IF comments THEN <<LF>> ELSE <<>>

\* the "# Lengths" lines of Graph.serialize
LengthLines(self, lbls) ==
    print_var(<<"numNodes">>, PyInt(Len(self.nodes)), lbls, 4)
        \o print_var(<<"numLinks">>, PyInt(Len(self.links)), lbls, 4)
        \o print_var(<<"numPaths">>, PyInt(Len(self.paths)), lbls, 4)
        \o print_var(<<"numPathLinks">>, PyInt(0), lbls, 4)

\* Graph.serialize, before the indentable wrapper
GraphSerialize(self, lbls, comments) ==
    <<"Graph", LF, "{", LF>>
        \o CommentLine("Metadata", comments)
        \o print_var(<<"name">>, self.name, lbls, 4)
        \o print_var(<<"description">>, self.description, lbls, 4)
        \o BlankLine(comments)
        \o CommentLine("Lengths", comments)
        \o LengthLines(self, lbls)
        \o BlankLine(comments)
        \o CommentLine("Structural information", comments)
        \o print_var(<<"links">>, PyList(self.links), lbls, 4)
        \o print_var(<<"paths">>, PyList(self.paths), lbls, 4)
        \o BlankLine(comments)
        \o CommentLine("Attributes", comments)
        \o print_var(<<"enumerations">>, PyList(self.enums), lbls, 4)
        \o print_var(<<"attributeDefinitions">>, PyList(self.attributes), lbls, 4)
        \o print_var(<<"qualifiers">>, PyList(self.qualifiers), lbls, 4)
        \o BlankLine(comments)
        \o CommentLine("Visualization", comments)
        \o print_var(<<"filters">>, None, lbls, 4)
        \o print_var(<<"selectors">>, None, lbls, 4)
        \o print_var(<<"displays">>, None, lbls, 4)
        \o print_var(<<"presentations">>, None, lbls, 4)
        \o BlankLine(comments)
        \o CommentLine("Interface", comments)
        \o print_var(<<"presentationMenus">>, None, lbls, 4)
        \o print_var(<<"displayMenus">>, None, lbls, 4)
        \o print_var(<<"selectorMenus">>, None, lbls, 4)
        \o print_var(<<"filterMenus">>, None, lbls, 4)
        \o print_var(<<"attributeMenus">>, None, lbls, 4)
        \o <<"}">>

----------------------------------------------------------------------------
(* Python containers.  A dict is the sequence of its <<key, value>> items  *)
(* in insertion order.                                                     *)

HasKey(d, k) == \E i \in DOMAIN d : d[i][1] = k

\* d[k] for a key that is present
DictGet(d, k) == d[CHOOSE i \in DOMAIN d : d[i][1] = k][2]

\* d.get(k, default)
DictGetDefault(d, k, default) == IF HasKey(d, k) THEN DictGet(d, k) ELSE default

\* d[k] = v: a present key keeps its place, a new one goes last
DictSet(d, k, v) ==
    IF HasKey(d, k)
    THEN [i \in DOMAIN d |-> IF d[i][1] = k THEN <<k, v>> ELSE d[i]]
    ELSE Append(d, <<k, v>>)

\* len(d) for a dict, len(l) for a list
PyLen(d) == Len(d)

----------------------------------------------------------------------------
(* The external graph: graph.nodes() is the sequence of node handles the   *)
(* iterator yields, graph.edges() a sequence of edges, each with its two   *)
(* end handles and its attr; node.attr and edge.attr are sequences of      *)
(* <<name, text>> in iteration order.                                      *)

NoError == [type |-> "none", args |-> <<>>]
RaiseException(msg) == [type |-> "Exception", args |-> <<msg>>]
RaiseKeyError(key) == [type |-> "KeyError", args |-> <<key>>]

\* Graph.__init__(name="Graph"); description is set by from_graph only
GraphNew(name) ==
    [name |-> name, description |-> None, nodes |-> <<>>, links |-> <<>>,
     paths |-> <<>>, enums |-> <<>>, attributes |-> <<>>,
     attribute_order |-> <<>>, qualifiers |-> <<>>]

\* LibSea = Graph() with name and description read from graph.graph_attr
NamedDocument(g) ==
    [GraphNew(Str(<<"Graph">>)) EXCEPT
        !.name = Str(DictGetDefault(g.graph_attr, "name", <<"Graph">>)),
        !.description = Str(DictGetDefault(g.graph_attr, "description",
                                           <<"Generated by libsea.py">>))]

\* attributeDefinition(): a fresh OrderedDict per call
attributeDefinition ==
    << <<<<"name">>, None>>, <<<<"type">>, None>>, <<<<"default">>, None>>,
       <<<<"nodeValues">>, PyList(<<>>)>>, <<<<"linkValues">>, PyList(<<>>)>>,
       <<<<"pathValues">>, PyList(<<>>)>> >>

\* a plausible slip: the "False" branch is missing
ConvertValueTrueOnly(value) ==
    IF value = <<"True">> THEN Node("Value", Node("str", <<"T">>, <<>>), <<>>)
    ELSE Node("str", value, <<>>)

\* if value == "True": value = Value('T') elif value == "False": value = Value('F')
ConvertValue(value) ==
    IF value = <<"True">> THEN Value(Str(<<"T">>))
    ELSE IF value = <<"False">> THEN Value(Str(<<"F">>))
    ELSE Str(value)

\* attributes[attribute_name][kind][i] = value on the nested defaultdicts
BucketPut(attrs, attribute_name, kind, i, value) ==
    LET data == DictGetDefault(attrs, attribute_name, <<>>)
        store == DictGetDefault(data, kind, <<>>)
    IN  DictSet(attrs, attribute_name,
                DictSet(data, kind, DictSet(store, i, value)))

\* the loop over one element's attr
RECURSIVE AttrLoop(_, _, _, _)
AttrLoop(attrs, attr, kind, i) ==
    IF attr = <<>> THEN attrs
    ELSE AttrLoop(BucketPut(attrs, attr[1][1], kind, i, ConvertValue(attr[1][2])),
                  Tail(attr), kind, i)

\* enumerate's index for the k-th item yielded (k = 1, 2, ...)
EnumIndex(k) == k - 1

\* for i, node in enumerate(graph.nodes()): the state after the items k..
RECURSIVE NodeLoop(_, _, _, _)
NodeLoop(g, k, order, attrs) ==
    IF k > Len(g.nodes) THEN [node_order |-> order, attributes |-> attrs]
    ELSE LET node == g.nodes[k]
             i == EnumIndex(k)
         IN  NodeLoop(g, k + 1, DictSet(order, node, i),
                      AttrLoop(attrs, g.attr[node], "nodeValues", i))

\* a plausible slip: the comparison can never be true
NodeCollisionNever(order, g) == PyLen(order) > Len(g.nodes)

\* len(node_order) != len(graph.nodes())
NodeCollision(order, g) == PyLen(order) # Len(g.nodes)

\* for i, edge in enumerate(graph.edges()): the state after the items k..
RECURSIVE EdgeLoop(_, _, _, _, _)
EdgeLoop(g, k, order, lnks, attrs) ==
    IF k > Len(g.edges) THEN [links |-> lnks, attributes |-> attrs, err |-> NoError]
    ELSE LET edge == g.edges[k]
             i == EnumIndex(k)
         IN  IF ~HasKey(order, edge.ends[1])
             THEN [links |-> lnks, attributes |-> attrs,
                   err |-> RaiseKeyError(edge.ends[1])]
             ELSE IF ~HasKey(order, edge.ends[2])
             THEN [links |-> lnks, attributes |-> attrs,
                   err |-> RaiseKeyError(edge.ends[2])]
             ELSE EdgeLoop(g, k + 1, order,
                           Append(lnks, Link(PyInt(DictGet(order, edge.ends[1])),
                                             PyInt(DictGet(order, edge.ends[2])))),
                           AttrLoop(attrs, edge.attr, "linkValues", i))

\* [attrValue(id, value) for id, value in data[kind].items()]
ValueList(data, kind) ==
    LET store == DictGetDefault(data, kind, <<>>)
    IN  PyList([j \in DOMAIN store |-> attrValue(PyInt(store[j][1]), store[j][2])])

\* attr['type'] = Value('string')
DefaultType == Value(Str(<<"string">>))

\* the body of `for i, name in enumerate(attributes)`: the record built
AttributeRecord(name, data) ==
    LET a1 == DictSet(attributeDefinition, <<"name">>, Identifier(Str(<<name>>)))
        a2 == DictSet(a1, <<"type">>, DefaultType)
        a3 == DictSet(a2, <<"nodeValues">>, ValueList(data, "nodeValues"))
        a4 == DictSet(a3, <<"linkValues">>, ValueList(data, "linkValues"))
    IN  PyDict(a4)

\* for i, name in enumerate(attributes): the document after the items k..
RECURSIVE AttributeLoop(_, _, _)
AttributeLoop(attrs, k, doc) ==
    IF k > Len(attrs) THEN doc
    ELSE AttributeLoop(attrs, k + 1,
            [doc EXCEPT
                !.attributes = Append(@, AttributeRecord(attrs[k][1], attrs[k][2])),
                !.attribute_order = DictSet(@, attrs[k][1], EnumIndex(k))])

\* a plausible slip: the override is left undone (the code's FIXME)
SetBoolSkipped(doc, name) == doc

\* LibSea.attributes[LibSea.attribute_order[name]]['type'] = Value('bool')
SetBool(doc, name) ==
    LET at == DictGet(doc.attribute_order, name) + 1
    IN  [doc EXCEPT !.attributes[at] =
            PyDict(DictSet(@.v, <<"type">>, Value(Str(<<"bool">>))))]

\* the OrderedDict appended to LibSea.qualifiers
SpanningTreeQualifier(doc) ==
    PyDict(<< <<<<"type">>, Identifier(Str(<<"spanning_tree">>))>>,
              <<<<"name">>, Identifier(Str(<<"default_spanning_tree">>))>>,
              <<<<"description">>, Str(<<"Spanning tree for walrus">>)>>,
              <<<<"attributes">>,
                PyList(<< PyTuple(<<>>, <<PyInt(DictGet(doc.attribute_order, "root")),
                                         Identifier(Str(<<"root">>))>>),
                          PyTuple(<<>>, <<PyInt(DictGet(doc.attribute_order, "tree_link")),
                                         Identifier(Str(<<"tree_link">>))>>) >>)>> >>)

----------------------------------------------------------------------------
(* The inputs drawn.                                                       *)

SeqsUpTo(S, n) == UNION {[1..k -> S] : k \in 0..n}

Range(f) == {f[i] : i \in DOMAIN f}

\* the node objects an external graph may hold, each with its attr
NodeAttr ==
    [n \in {"a", "b", "c"} |->
        CASE n = "a" -> <<>>
          [] n = "b" -> << <<"root", <<"False">>>>, <<"x", <<"v">>>> >>
          [] n = "c" -> << <<"x", <<"True">>>>, <<"tree_link", <<"False">>>> >>]

Handles == DOMAIN NodeAttr

\* the attr an edge may carry
EdgeAttrChoices ==
    { <<>>,
      << <<"tree_link", <<"True">>>> >>,
      << <<"x", <<"w">>>>, <<"tree_link", <<"False">>>> >>,
      << <<"root", <<"v">>>> >> }

\* graph.graph_attr
GraphAttrChoices ==
    { <<>>, << <<"name", <<"G">>>>, <<"description", <<"d">>>> >> }

\* the edges of a graph whose nodes are H: both ends are nodes of the graph
EdgesOver(H) ==
    {[ends |-> <<s, d>>, attr |-> a] : s \in H, d \in H, a \in EdgeAttrChoices}

\* graph is an external graph of at most MaxNodes yielded handles and MaxEdges edges
IsInputGraph(g) ==
    \E ns \in SeqsUpTo(Handles, MaxNodes) :
        \E es \in SeqsUpTo(EdgesOver(Range(ns)), MaxEdges) :
            \E ga \in GraphAttrChoices :
                g = [nodes |-> ns, edges |-> es, attr |-> NodeAttr, graph_attr |-> ga]

NoGraph == [nodes |-> <<>>, edges |-> <<>>, attr |-> NodeAttr, graph_attr |-> <<>>]

----------------------------------------------------------------------------
(* Graph.from_graph, one action per phase of its body.                     *)

AssemblerInit ==
    /\ pc = "start"
    /\ IsInputGraph(graph)
    /\ node_order = <<>>
    /\ attributes = <<>>
    /\ links = <<>>
    /\ LibSea = GraphNew(Str(<<"Graph">>))
    /\ err = NoError
    /\ obj = None
    /\ labels = FALSE
    /\ indent = 0
    /\ out = <<>>

\* lines 266-286: the document is created and the nodes are scanned
ScanNodes ==
    /\ pc = "start"
    /\ LET r == NodeLoop(graph, 1, <<>>, <<>>)
       IN  /\ node_order' = r.node_order
           /\ attributes' = r.attributes
    /\ LibSea' = NamedDocument(graph)
    /\ pc' = "check"
    /\ UNCHANGED <<graph, links, err, obj, labels, indent, out>>

\* lines 287-288
CheckCollision ==
    /\ pc = "check"
    /\ \/ /\ NodeCollision(node_order, graph)
          /\ err' = RaiseException("Node collision")
          /\ pc' = "failed"
       \/ /\ ~NodeCollision(node_order, graph)
          /\ err' = err
          /\ pc' = "edges"
    /\ UNCHANGED <<graph, node_order, attributes, links, LibSea, obj, labels, indent, out>>

\* lines 291-305
ScanEdges ==
    /\ pc = "edges"
    /\ LET r == EdgeLoop(graph, 1, node_order, <<>>, attributes)
       IN  /\ links' = r.links
           /\ attributes' = r.attributes
           /\ err' = r.err
           /\ IF r.err = NoError
              THEN /\ LibSea' = [LibSea EXCEPT !.nodes = node_order, !.links = r.links]
                   /\ pc' = "attributes"
              ELSE /\ LibSea' = LibSea
                   /\ pc' = "failed"
    /\ UNCHANGED <<graph, node_order, obj, labels, indent, out>>

\* lines 308-320
BuildAttributes ==
    /\ pc = "attributes"
    /\ LibSea' = AttributeLoop(attributes, 1, LibSea)
    /\ pc' = "types"
    /\ UNCHANGED <<graph, node_order, attributes, links, err, obj, labels, indent, out>>

\* a plausible slip: a missing tree_link is looked up leniently and skipped
OverrideTypesLenient ==
    /\ pc = "types"
    /\ \/ /\ ~HasKey(LibSea.attribute_order, "root")
          /\ err' = RaiseKeyError("root")
          /\ pc' = "failed"
          /\ LibSea' = LibSea
       \/ /\ HasKey(LibSea.attribute_order, "root")
          /\ err' = err
          /\ pc' = "qualifier"
          /\ LibSea' = LibSea
    /\ UNCHANGED <<graph, node_order, attributes, links, obj, labels, indent, out>>

\* lines 322-323
OverrideTypes ==
    /\ pc = "types"
    /\ \/ /\ ~HasKey(LibSea.attribute_order, "root")
          /\ err' = RaiseKeyError("root")
          /\ pc' = "failed"
          /\ LibSea' = LibSea
       \/ /\ HasKey(LibSea.attribute_order, "root")
          /\ ~HasKey(LibSea.attribute_order, "tree_link")
          /\ err' = RaiseKeyError("tree_link")
          /\ pc' = "failed"
          /\ LibSea' = SetBool(LibSea, "root")
       \/ /\ HasKey(LibSea.attribute_order, "root")
          /\ HasKey(LibSea.attribute_order, "tree_link")
          /\ err' = err
          /\ pc' = "qualifier"
          /\ LibSea' = SetBool(SetBool(LibSea, "root"), "tree_link")
    /\ UNCHANGED <<graph, node_order, attributes, links, obj, labels, indent, out>>

\* lines 325-335
AppendQualifier ==
    /\ pc = "qualifier"
    /\ LibSea' = [LibSea EXCEPT !.qualifiers = Append(@, SpanningTreeQualifier(LibSea))]
    /\ pc' = "done"
    /\ UNCHANGED <<graph, node_order, attributes, links, err, obj, labels, indent, out>>

Next ==
    \/ ScanNodes
    \/ CheckCollision
    \/ ScanEdges
    \/ BuildAttributes
    \/ OverrideTypes
    \/ AppendQualifier

Spec == AssemblerInit /\ [][Next]_vars

----------------------------------------------------------------------------
(* Rendering: a value is handed either to the dispatcher ser or, when it   *)
(* is an Element, to its own serialize method.                             *)

\* the characters a native text is drawn from
Alphabet == EscapedChars \cup {"a", TERM}

Texts == SeqsUpTo(Alphabet, MaxStrLen)

FieldNames == {<<"a">>, <<"b">>}

\* the members a composite is drawn from
Members ==
    {PyInt(1), PyInt(2), Str(<<"v">>), Float(1, 5), None, PyBool(TRUE),
     Value(Str(<<"T">>)), Identifier(Str(<<"root">>)),
     PyList(<<PyInt(1)>>), PyDict(<< <<<<"k">>, Str(<<"v">>)>> >>)}

\* the document Graph.from_graph returns for an external graph without collision
\* that carries root and tree_link
FromGraph(g) ==
    LET n == NodeLoop(g, 1, <<>>, <<>>)
        e == EdgeLoop(g, 1, n.node_order, <<>>, n.attributes)
        d0 == [NamedDocument(g) EXCEPT !.nodes = n.node_order, !.links = e.links]
        d1 == AttributeLoop(e.attributes, 1, d0)
        d2 == SetBool(SetBool(d1, "root"), "tree_link")
    IN  [d2 EXCEPT !.qualifiers = Append(@, SpanningTreeQualifier(d2))]

Graph(doc) == Node("Graph", doc, <<>>)

SampleGraphs ==
    { [nodes |-> <<"c", "b">>, edges |-> <<>>, attr |-> NodeAttr, graph_attr |-> <<>>],
      [nodes |-> <<"b", "a">>,
       edges |-> << [ends |-> <<"b", "a">>,
                     attr |-> << <<"tree_link", <<"True">>>> >>] >>,
       attr |-> NodeAttr, graph_attr |-> <<>>] }

\* obj is one of the values rendered
IsRenderInput(o) ==
    \/ \E text \in Texts :
          o \in {Str(text), String(text), Value(Str(text)), Identifier(Str(text))}
    \/ o \in {PyInt(0), PyInt(12), PyInt(-3), Float(1, 5), None, PyBool(TRUE),
              PyBool(FALSE), ElementNew, Value(None), Bool(PyBool(TRUE)),
              Bool(PyBool(FALSE)), Bool(PyInt(0)), Double(Float(2, 0)),
              Integer(PyInt(7))}
    \/ \E items \in SeqsUpTo(Members, MaxItems) :
          \/ o \in {PyList(items), List(items), PyTuple(<<>>, items)}
          \/ o = PyList(<<PyList(items)>>)
          \/ \E names \in SeqsUpTo(FieldNames, MaxItems) :
                \/ o = Tuple(names, items)
                \/ Len(names) = Len(items) /\ o = PyTuple(names, items)
                \/ /\ Len(names) = Len(items)
                   /\ \A i, j \in DOMAIN names : names[i] = names[j] => i = j
                   /\ LET dict == [i \in DOMAIN names |-> <<names[i], items[i]>>]
                      IN  o \in {PyDict(dict), Object(dict)}
    \/ \E g \in SampleGraphs : o = Graph(FromGraph(g))

RenderInit ==
    /\ pc = "call"
    /\ IsRenderInput(obj)
    /\ labels \in BOOLEAN
    /\ indent \in 0..MaxIndent
    /\ out = <<>>
    /\ graph = NoGraph
    /\ node_order = <<>>
    /\ attributes = <<>>
    /\ links = <<>>
    /\ LibSea = GraphNew(Str(<<"Graph">>))
    /\ err = NoError

\* ser(obj, labels=labels, indent=indent)
CallSer ==
    /\ pc = "call"
    /\ out' = ser(obj, labels, indent)
    /\ pc' = "ser_returned"
    /\ UNCHANGED <<graph, node_order, attributes, links, LibSea, err, obj, labels, indent>>

\* obj.serialize(labels=labels, indent=indent) on an Element
CallSerialize ==
    /\ pc = "call"
    /\ obj.t \in ElementClasses
    /\ out' = Serialize(obj, labels, indent)
    /\ pc' = "serialize_returned"
    /\ UNCHANGED <<graph, node_order, attributes, links, LibSea, err, obj, labels, indent>>

RenderNext == CallSer \/ CallSerialize

SpecRender == RenderInit /\ [][RenderNext]_vars

----------------------------------------------------------------------------
(* What the claims speak of, stated from the external graph alone.         *)

\* the names of an attr, in its iteration order
AttrNames(attr) == [i \in DOMAIN attr |-> attr[i][1]]

\* the names met by the scan: every node in iteration order, then every edge
RECURSIVE Flatten(_)
Flatten(seqs) == IF seqs = <<>> THEN <<>> ELSE seqs[1] \o Flatten(Tail(seqs))

ScanNames ==
    Flatten([k \in DOMAIN graph.nodes |-> AttrNames(graph.attr[graph.nodes[k]])])
        \o Flatten([k \in DOMAIN graph.edges |-> AttrNames(graph.edges[k].attr)])

\* a sequence without its repeats, each item at its first place
RECURSIVE FirstSeen(_, _)
FirstSeen(seq, seen) ==
    IF seq = <<>> THEN <<>>
    ELSE IF seq[1] \in seen THEN FirstSeen(Tail(seq), seen)
    ELSE <<seq[1]>> \o FirstSeen(Tail(seq), seen \cup {seq[1]})

FoundNames == FirstSeen(ScanNames, {})

\* some node or edge of the external graph carries an attribute of this name
Carries(name) == \E i \in DOMAIN ScanNames : ScanNames[i] = name

\* the iterator yielded some handle twice
Collides == Cardinality(Range(graph.nodes)) # Len(graph.nodes)

\* the handles yielded more than once
CollidingNodes ==
    {h \in Range(graph.nodes) :
        Cardinality({k \in DOMAIN graph.nodes : graph.nodes[k] = h}) > 1}

\* the place at which a handle is first yielded, counted from zero
SeenAt(h) ==
    (CHOOSE k \in DOMAIN graph.nodes :
        graph.nodes[k] = h /\ \A j \in 1..(k - 1) : graph.nodes[j] # h) - 1

\* the value of attribute a in an attr that has it
ValueIn(attr, a) == attr[CHOOSE i \in DOMAIN attr : attr[i][1] = a][2]

Has(attr, a) == \E i \in DOMAIN attr : attr[i][1] = a

\* the stored form the claim gives an attribute text
StoredForm(stored, text) ==
    IF text = <<"True">> THEN ser(stored, TRUE, 0) = <<"T">>
    ELSE IF text = <<"False">> THEN ser(stored, TRUE, 0) = <<"F">>
    ELSE stored = [t |-> "str", v |-> text, names |-> <<>>]

\* a namedtuple (id, value) of a value list, as <<id, stored value>>
PairsOf(list) == {<<list.v[i].v[1].v, list.v[i].v[2]>> : i \in DOMAIN list.v}

\* the field of an attribute-definition or qualifier record
Field(record, key) ==
    record.v[CHOOSE i \in DOMAIN record.v : record.v[i][1] = <<key>>][2]

IdentifierOf(name) == [t |-> "Identifier", v |-> [t |-> "str", v |-> <<name>>, names |-> <<>>], names |-> <<>>]

TypeTag(tag) == [t |-> "Value", v |-> [t |-> "str", v |-> <<tag>>, names |-> <<>>], names |-> <<>>]

----------------------------------------------------------------------------
(* The claims about Graph.from_graph, checked under Spec.                  *)

C3_CollisionFails ==
    /\ (Collides /\ pc \notin {"start", "check"}) =>
          /\ pc = "failed"
          /\ err.type = "Exception"
          /\ err.args = <<"Node collision">>
    /\ pc = "done" =>
          \A i, j \in DOMAIN LibSea.nodes :
              i # j => /\ LibSea.nodes[i][1] # LibSea.nodes[j][1]
                       /\ LibSea.nodes[i][2] # LibSea.nodes[j][2]

\* the iterator yielded one handle twice and the call has failed
C3_Witness ==
    /\ pc = "failed"
    /\ Collides
    /\ Len(graph.nodes) = 2
    /\ graph.nodes[1] = graph.nodes[2]

\* C4 as stated: from_graph fails with the missing-attribute lookup error,
\* returning no document, whenever no node and no edge carries root, or none
\* carries tree_link; on a collision-free graph carrying both it succeeds.
C4_AsStated ==
    /\ pc \in {"qualifier", "done"} => Carries("root") /\ Carries("tree_link")
    /\ (pc = "failed" /\ (~Carries("root") \/ ~Carries("tree_link"))) =>
          err.type = "KeyError"
    /\ (pc = "failed" /\ ~Collides) => ~Carries("root") \/ ~Carries("tree_link")

\* C4 amended: from_graph fails, returning no document, whenever no node and no
\* edge carries root, or none carries tree_link; the error is the
\* missing-attribute lookup error when the node iteration is collision-free and
\* the node-collision error, raised first, when it is not; on a collision-free
\* graph carrying both names it succeeds.
C4_RequiredAttributes ==
    /\ pc \in {"qualifier", "done"} => Carries("root") /\ Carries("tree_link")
    /\ (pc = "failed" /\ ~Collides) =>
          /\ ~Carries("root") \/ ~Carries("tree_link")
          /\ err.type = "KeyError"
    /\ (pc = "failed" /\ Collides) => err.type = "Exception"

\* the call has failed on a collision-free graph that carries root but no tree_link
C4_Witness ==
    /\ pc = "failed"
    /\ ~Collides
    /\ Carries("root")
    /\ ~Carries("tree_link")

\* C5: after from_graph succeeds, attributes holds one record per distinct
\* attribute name, in the order the scan first meets the names;
\* attribute_order[a] is the index of the record named a; the record's
\* nodeValues are exactly the pairs (id of n, value of a on n) for the nodes
\* carrying a, its linkValues the pairs (edge index, value of a on the edge);
\* a text "True" or "False" is stored as a value rendering T or F, any other
\* text unchanged.
C5_AttributeRecords ==
    pc = "done" =>
        /\ Len(LibSea.attributes) = Len(FoundNames)
        /\ Len(LibSea.attribute_order) = Len(FoundNames)
        /\ \A i \in DOMAIN FoundNames :
              LET a == FoundNames[i]
                  record == LibSea.attributes[i]
                  nodeValues == Field(record, "nodeValues")
                  linkValues == Field(record, "linkValues")
                  nodesWith == {k \in DOMAIN graph.nodes :
                                   Has(graph.attr[graph.nodes[k]], a)}
                  edgesWith == {k \in DOMAIN graph.edges :
                                   Has(graph.edges[k].attr, a)}
              IN  /\ Field(record, "name") = IdentifierOf(a)
                  /\ \E j \in DOMAIN LibSea.attribute_order :
                        LibSea.attribute_order[j] = <<a, i - 1>>
                  /\ Len(nodeValues.v) = Cardinality(nodesWith)
                  /\ {p[1] : p \in PairsOf(nodeValues)} = {k - 1 : k \in nodesWith}
                  /\ \A p \in PairsOf(nodeValues) :
                        StoredForm(p[2], ValueIn(graph.attr[graph.nodes[p[1] + 1]], a))
                  /\ Len(linkValues.v) = Cardinality(edgesWith)
                  /\ {p[1] : p \in PairsOf(linkValues)} = {k - 1 : k \in edgesWith}
                  /\ \A p \in PairsOf(linkValues) :
                        StoredForm(p[2], ValueIn(graph.edges[p[1] + 1].attr, a))

\* a success in which one attribute has a value on a node and on an edge, a text
\* "False" was met, and a name first met on an edge follows the nodes' names
C5_Witness ==
    /\ pc = "done"
    /\ \E i \in DOMAIN LibSea.attributes :
          /\ Field(LibSea.attributes[i], "nodeValues").v # <<>>
          /\ Field(LibSea.attributes[i], "linkValues").v # <<>>
    /\ \E k \in DOMAIN graph.nodes :
          \E j \in DOMAIN graph.attr[graph.nodes[k]] :
              graph.attr[graph.nodes[k]][j][2] = <<"False">>
    /\ Len(FoundNames) = 3

\* C8: after from_graph succeeds, qualifiers has exactly one entry, the
\* spanning-tree qualifier, whose attributes are exactly the two pairs
\* (i, Identifier root) and (j, Identifier tree_link), the record at index i
\* being named root and the one at j tree_link; those two records have the type
\* tag bool and every other record the type tag string.
C8_SpanningTreeQualifier ==
    pc = "done" =>
        /\ Len(LibSea.qualifiers) = 1
        /\ Field(LibSea.qualifiers[1], "type") = IdentifierOf("spanning_tree")
        /\ LET refs == Field(LibSea.qualifiers[1], "attributes").v
           IN  /\ Len(refs) = 2
               /\ refs[1].v[2] = IdentifierOf("root")
               /\ refs[2].v[2] = IdentifierOf("tree_link")
               /\ refs[1].v[1].v + 1 \in DOMAIN LibSea.attributes
               /\ refs[2].v[1].v + 1 \in DOMAIN LibSea.attributes
               /\ Field(LibSea.attributes[refs[1].v[1].v + 1], "name")
                     = IdentifierOf("root")
               /\ Field(LibSea.attributes[refs[2].v[1].v + 1], "name")
                     = IdentifierOf("tree_link")
        /\ \A i \in DOMAIN LibSea.attributes :
              Field(LibSea.attributes[i], "type") =
                  IF Field(LibSea.attributes[i], "name")
                         \in {IdentifierOf("root"), IdentifierOf("tree_link")}
                  THEN TypeTag("bool")
                  ELSE TypeTag("string")

\* a success with a third attribute beside root and tree_link, root not first
C8_Witness ==
    /\ pc = "done"
    /\ Len(LibSea.attributes) = 3
    /\ Field(LibSea.attributes[1], "name") # IdentifierOf("root")

\* C9: whenever from_graph fails, the error names the offending identity: the
\* colliding node for a node collision, the missing attribute name (root or
\* tree_link) for a missing required attribute.
C9_ErrorNamesOffender ==
    pc = "failed" =>
        /\ err.type = "Exception" =>
              \E h \in CollidingNodes : \E i \in DOMAIN err.args : err.args[i] = h
        /\ err.type = "KeyError" =>
              /\ err.args[1] \in {"root", "tree_link"}
              /\ ~Carries(err.args[1])

----------------------------------------------------------------------------
(* The claims about rendering, checked under SpecRender.                   *)

Returned == pc \in {"ser_returned", "serialize_returned"}

Last(text) == text[Len(text)]

\* each of the eight characters preceded by one backslash, the others as they are
RECURSIVE EscapedOnce(_)
EscapedOnce(text) ==
    IF text = <<>> THEN <<>>
    ELSE (IF Head(text) \in {BSLASH, DQUOTE, LF, CR, TAB, FF, BKSP, PIPE}
          THEN <<BSLASH, Head(text)>>
          ELSE <<Head(text)>>) \o EscapedOnce(Tail(text))

\* every non-empty line prefixed by amount spaces, blank lines untouched
Margin(text, amount) ==
    LET lines == Split(text)
    IN  Join(<<LF>>, [i \in DOMAIN lines |->
                         IF lines[i] = <<>> THEN <<>>
                         ELSE [j \in 1..amount |-> SPACE] \o lines[i]])

\* C1: a text wrapped as a Text scalar renders between two double quotes with
\* every occurrence of backslash, double quote, newline, carriage return, tab,
\* form feed, backspace and pipe preceded by exactly one backslash, and no
\* unescaped occurrence left.
C1_TextEscapedOnce ==
    (pc = "ser_returned" /\ obj.t = "str" /\ indent = 0) =>
        out = <<DQUOTE>> \o EscapedOnce(obj.v) \o <<DQUOTE>>

\* C6: the text a render operation returns does not start with a newline, does
\* not end with a newline and does not end with the record terminator.
C6_NoEdgeNewlineNoTerminator ==
    (Returned /\ out # <<>>) =>
        /\ Head(out) # LF
        /\ Last(out) # LF
        /\ Last(out) # TERM

\* C7: a Tuple with any field name renders every one of its values as
\* @name=value; with its own label, a Tuple without field names every value as
\* value;, the members joined by one space inside { and }, no newline inside.
\* Stated for the labeled rendering of a Tuple whose values each render on one
\* line.
C7_TupleMembers ==
    (/\ Returned
     /\ obj.t \in {"Tuple", "tuple"}
     /\ labels
     /\ \A i \in DOMAIN obj.v : \A j \in DOMAIN ser(obj.v[i], TRUE, 0) :
            ser(obj.v[i], TRUE, 0)[j] # LF) =>
        /\ \A i \in DOMAIN out : out[i] # LF
        /\ IF obj.names = <<>>
           THEN out = Spaces(indent) \o <<"{">>
                          \o Join(<<SPACE>>, [i \in DOMAIN obj.v |->
                                     ser(obj.v[i], TRUE, 0) \o <<TERM>>])
                          \o <<"}">>
           ELSE \E own \in [DOMAIN obj.v -> DOMAIN obj.names] :
                   /\ \A i, j \in DOMAIN obj.v : own[i] = own[j] => i = j
                   /\ out = Spaces(indent) \o <<"{">>
                                \o Join(<<SPACE>>, [i \in DOMAIN obj.v |->
                                           <<"@">> \o obj.names[own[i]] \o <<"=">>
                                               \o ser(obj.v[i], TRUE, 0) \o <<TERM>>])
                                \o <<"}">>

\* C10: a List rendered at indent k is the line [ and the line ], both behind k
\* spaces, around its elements, each rendered through the dispatcher at indent
\* k+4 (every non-empty line behind k+4 spaces, blank lines untouched) and
\* separated by a comma and a newline, at every depth of nesting.
C10_ListLayout ==
    (Returned /\ obj.t \in {"List", "list"}) =>
        out = Spaces(indent) \o <<"[", LF>>
                  \o Join(<<",", LF>>, [i \in DOMAIN obj.v |->
                             Margin(ser(obj.v[i], labels, 0), indent + 4)])
                  \o <<LF>> \o Spaces(indent) \o <<"]">>

====
